---- MODULE Spec2Model ----
(***************************************************************************)
(* WeatherApp: the local cache (storage.ts), the geocoding autocomplete    *)
(* (search.ts) and the display controller (index.ts) as a state machine.   *)
(*                                                                         *)
(* Conventions                                                             *)
(*   - a JavaScript object is a function from its present keys to values;  *)
(*     a key whose value is undefined is modelled as an absent key;        *)
(*   - coordinates are in thousandths of a degree (52.52 is 52520);        *)
(*   - time is in milliseconds since an arbitrary origin;                  *)
(*   - a text built by string concatenation is the sequence of its parts.  *)
(***************************************************************************)
EXTENDS Integers, Sequences, FiniteSets, TLC

VARIABLES
    \* ---- storage.ts
    localStorage,   \* the item stored under STORAGE_KEY
    storageMode,    \* "ok" | "quota" (setItem throws) | "disabled" (every access throws)
                    \* | "tight" (setItem throws for a record, not for the short probe)
    now,            \* Date.now()
    ticks,          \* number of clock advances so far (bounds the clock)
    \* ---- the cache driver (SpecCache)
    cacheOp,        \* the cache operation performed last by the cache driver
    prevOp,         \* the cache operation performed before cacheOp
    saved,          \* arguments of the last saveLastCity call of the driver
    loaded,         \* result of the last getLastCity call of the driver
    loadedFrom,     \* the stored item that call read
    loadedAge,      \* the maxAgeHours that call was given
    staleSeen,      \* a load has met an expired record and no save followed yet
    \* ---- index.ts: the page
    page,                   \* "evaluated" (listeners registered) | "loaded" (DOMContentLoaded ran)
    weatherReqs,            \* weather requests in flight, in the order issued
    display,                \* the text and image elements of the weather section
    weatherDataHidden,      \* weatherDataSection.hidden
    weatherLoadingHidden,   \* weatherLoadingSection.hidden
    loadingIndicatorHidden, \* #loading-indicator hidden
    button,                 \* the submit control: [disabled, label]
    currentCoordinates,     \* index.ts currentCoordinates
    searchValue,            \* search.value
    placeholder,            \* search.placeholder
    themeTimers,            \* pending 100 ms theme timers: the background each will apply
    themeFrames,            \* pending animation-frame callbacks: the class each will add
    bodyClasses,            \* the weather classes of document.body
    \* ---- search.ts: the autocomplete, one closure per initSearch() call
    timer,                  \* timer[i]: controller i's debounce timer is pending
    selectedIndex,          \* selectedIndex[i] of controller i
    currentResults,         \* search.ts currentResults
    items,                  \* the li elements of #results
    resultsHidden,          \* results.hidden
    activeDescendant,       \* search's aria-activedescendant
    geoReqs,                \* geocoding requests in flight, in the order issued
    \* ---- observers (no effect on the program)
    initialLoads,           \* number of loadInitialWeather() calls
    bootFetches,            \* weather requests issued by loadInitialWeather's first attempt
    bootFailures,           \* initial weather requests that failed
    bootRetries,            \* weather requests issued by loadInitialWeather's catch block
    queries,                \* geocoding requests issued by debounced handlers
    quietPeriods,           \* debounce windows that ended with a non-blank input value
    inputs,                 \* input events so far
    closedAt,               \* the value of inputs when the results list was last closed
    \* ---- the condition lookup (SpecLookup)
    lookupCode,             \* the weather code looked up
    lookupInfo              \* what getWeatherInfo returned for it, Null before the call

cacheVars == <<localStorage, storageMode, now, ticks>>
driverVars == <<cacheOp, prevOp, saved, loaded, loadedFrom, loadedAge, staleSeen>>
pageVars ==
    <<page, weatherReqs, display, weatherDataHidden, weatherLoadingHidden,
      loadingIndicatorHidden, button, currentCoordinates, searchValue, placeholder,
      themeTimers, themeFrames, bodyClasses>>
searchVars ==
    <<timer, selectedIndex, currentResults, items, resultsHidden, activeDescendant, geoReqs>>
observerVars ==
    <<initialLoads, bootFetches, bootFailures, bootRetries, queries, quietPeriods, inputs,
      closedAt>>
lookupVars == <<lookupCode, lookupInfo>>
vars == <<cacheVars, driverVars, pageVars, searchVars, observerVars, lookupVars>>

(***************************************************************************)
(* Bounds of the model and constants of the program.                       *)
(***************************************************************************)
MaxTicks == 2
MsPerHour == 3600000
DefaultMaxAgeHours == 24
StartTime == 400000000

Null == [null |-> TRUE]

(***************************************************************************)
(* Candidates (Coordinates, weather-api.ts).                               *)
(***************************************************************************)
getBerlinCoordinates ==
    [lat |-> 52520, lon |-> 13405, name |-> "Berlin", country |-> "Deutschland",
     postcodes |-> <<"10115", "10117", "10119">>]

Paris ==
    [lat |-> 48853, lon |-> 2349, name |-> "Paris", country |-> "France",
     postcodes |-> <<"75001">>]

Sydney == [lat |-> -33868, lon |-> 151209, name |-> "Sydney", postcodes |-> <<>>]

OnEquator == [lat |-> 0, lon |-> 9450, name |-> "Equator", postcodes |-> <<>>]

OnMeridian ==
    [lat |-> 51477, lon |-> 0, name |-> "Meridian", country |-> "UK",
     postcodes |-> <<"SE10">>]

\* valid candidates: in-range coordinates, non-empty name
Candidates == {getBerlinCoordinates, Paris, Sydney, OnEquator, OnMeridian}

Has(obj, key) == key \in DOMAIN obj

Without(obj, key) == [k \in DOMAIN obj \ {key} |-> obj[k]]

(***************************************************************************)
(* JSON.stringify / JSON.parse on the objects the cache handles.  The text *)
(* is the sequence of its key/value members in key order.                  *)
(***************************************************************************)
KeyOrder == <<"lat", "lon", "name", "country", "postcodes", "timestamp", "searchText">>

RECURSIVE Members(_, _)
Members(obj, i) ==
    IF i > Len(KeyOrder) THEN <<>>
    ELSE IF Has(obj, KeyOrder[i])
         THEN <<<<KeyOrder[i], obj[KeyOrder[i]]>>>> \o Members(obj, i + 1)
         ELSE Members(obj, i + 1)

Stringify(obj) == [kind |-> "json", members |-> Members(obj, 1)]

NoItem == [kind |-> "none"]
Garbage == [kind |-> "garbage"]        \* a text JSON.parse rejects
JsonNull == [kind |-> "jsonnull"]      \* the text "null"

ParseThrows(item) == item.kind = "garbage"

Parse(item) ==
    IF item.kind = "jsonnull" THEN Null
    ELSE LET m == item.members
             keys == {m[i][1] : i \in 1..Len(m)}
         IN [k \in keys |-> LET i == CHOOSE j \in 1..Len(m) : m[j][1] = k IN m[i][2]]

(***************************************************************************)
(* storage.ts                                                              *)
(***************************************************************************)
\* the record, had the spread come last: {timestamp: Date.now(), searchText, ...coordinates}
CityData_KeepTimestamp(coordinates, searchText, t) ==
    [k \in DOMAIN coordinates \cup {"timestamp", "searchText"} |->
        IF k = "timestamp"
        THEN (IF Has(coordinates, "timestamp") THEN coordinates.timestamp ELSE t)
        ELSE IF k = "searchText" THEN searchText
        ELSE coordinates[k]]

\* {...coordinates, timestamp: Date.now(), searchText: searchText}
CityData(coordinates, searchText, t) ==
    [k \in DOMAIN coordinates \cup {"timestamp", "searchText"} |->
        IF k = "timestamp" THEN t
        ELSE IF k = "searchText" THEN searchText
        ELSE coordinates[k]]

StorageModes == {"ok", "quota", "disabled"}

\* saveLastCity: the item stored afterwards (setItem throws: caught, nothing stored)
saveLastCity(coordinates, searchText, item, mode, t) ==
    IF mode = "ok" THEN Stringify(CityData(coordinates, searchText, t)) ELSE item

\* clearLastCity: the item stored afterwards (removeItem throws: caught)
clearLastCity(item, mode) ==
    IF mode = "disabled" THEN item ELSE NoItem

\* ageInHours > maxAgeHours; a missing timestamp gives NaN, which is not greater
IsExpired(cityData, t, maxAgeHours) ==
    /\ Has(cityData, "timestamp")
    /\ t - cityData.timestamp > maxAgeHours * MsPerHour

\* !cityData.lat || !cityData.lon || !cityData.name
IsInvalid(cityData) ==
    \/ ~Has(cityData, "lat") \/ cityData.lat = 0
    \/ ~Has(cityData, "lon") \/ cityData.lon = 0
    \/ ~Has(cityData, "name") \/ cityData.name = ""

\* getLastCity: [city |-> the record or Null, item |-> the item stored afterwards]
getLastCity_NoExpiryReturn(item, mode, t, maxAgeHours) ==
    IF mode = "disabled" THEN [city |-> Null, item |-> clearLastCity(item, mode)]
    ELSE IF item = NoItem THEN [city |-> Null, item |-> item]
    ELSE IF ParseThrows(item) \/ Parse(item) = Null
         THEN [city |-> Null, item |-> clearLastCity(item, mode)]
    ELSE LET cityData == Parse(item)
             after == IF IsExpired(cityData, t, maxAgeHours)
                      THEN clearLastCity(item, mode) ELSE item
         IN IF IsInvalid(cityData)
            THEN [city |-> Null, item |-> clearLastCity(item, mode)]
            ELSE [city |-> cityData, item |-> after]

getLastCity_NameUnchecked(item, mode, t, maxAgeHours) ==
    IF mode = "disabled" THEN [city |-> Null, item |-> clearLastCity(item, mode)]
    ELSE IF item = NoItem THEN [city |-> Null, item |-> item]
    ELSE IF ParseThrows(item) \/ Parse(item) = Null
         THEN [city |-> Null, item |-> clearLastCity(item, mode)]
    ELSE LET cityData == Parse(item)
         IN IF IsExpired(cityData, t, maxAgeHours)
            THEN [city |-> Null, item |-> clearLastCity(item, mode)]
            ELSE IF \/ ~Has(cityData, "lat") \/ cityData.lat = 0
                    \/ ~Has(cityData, "lon") \/ cityData.lon = 0
            THEN [city |-> Null, item |-> clearLastCity(item, mode)]
            ELSE [city |-> cityData, item |-> item]

\* getLastCity, had its catch block and its validation returned null without
\* clearLastCity()
getLastCity_KeepsCorrupt(item, mode, t, maxAgeHours) ==
    IF mode = "disabled" THEN [city |-> Null, item |-> item]
    ELSE IF item = NoItem THEN [city |-> Null, item |-> item]
    ELSE IF ParseThrows(item) \/ Parse(item) = Null
         THEN [city |-> Null, item |-> item]
    ELSE LET cityData == Parse(item)
         IN IF IsExpired(cityData, t, maxAgeHours)
            THEN [city |-> Null, item |-> clearLastCity(item, mode)]
            ELSE IF IsInvalid(cityData)
            THEN [city |-> Null, item |-> item]
            ELSE [city |-> cityData, item |-> item]

getLastCity(item, mode, t, maxAgeHours) ==
    IF mode = "disabled"
    THEN \* localStorage access throws: caught, clearLastCity (throws, caught), null
         [city |-> Null, item |-> clearLastCity(item, mode)]
    ELSE IF item = NoItem THEN [city |-> Null, item |-> item]
    ELSE IF ParseThrows(item) \/ Parse(item) = Null
         THEN \* JSON.parse throws, or null.timestamp throws: caught
              [city |-> Null, item |-> clearLastCity(item, mode)]
    ELSE LET cityData == Parse(item)
         IN IF IsExpired(cityData, t, maxAgeHours)
            THEN [city |-> Null, item |-> clearLastCity(item, mode)]
            ELSE IF IsInvalid(cityData)
            THEN [city |-> Null, item |-> clearLastCity(item, mode)]
            ELSE [city |-> cityData, item |-> item]

(***************************************************************************)
(* weather-api.ts: the condition table and the weather request.            *)
(***************************************************************************)
SunnyPng == {0, 1}
CloudySunnyPng == {2}
CloudyPng == {3, 45, 48, 71, 73, 75, 77, 85, 86}
SunnyRainPng == {51, 53, 55, 56, 57, 61, 63, 65, 66, 67, 80, 81, 82, 95, 96, 99}

WeatherCodes == SunnyPng \cup CloudySunnyPng \cup CloudyPng \cup SunnyRainPng

Condition(code) ==
    CASE code = 0 -> "Klarer Himmel"
      [] code = 1 -> "Ueberwiegend klar"
      [] code = 2 -> "Teilweise bewoelkt"
      [] code = 3 -> "Bedeckt"
      [] code = 45 -> "Neblig"
      [] code = 48 -> "Eisnebel"
      [] code \in {51, 53} -> "Nieselregen"
      [] code = 55 -> "Starker Niesel"
      [] code \in {56, 66} -> "Eisregen"
      [] code \in {57, 67} -> "Starker Eisregen"
      [] code = 61 -> "Leichter Regen"
      [] code = 63 -> "Maessiger Regen"
      [] code = 65 -> "Starker Regen"
      [] code = 71 -> "Leichter Schnee"
      [] code = 73 -> "Maessiger Schnee"
      [] code = 75 -> "Starker Schnee"
      [] code = 77 -> "Schneekoerner"
      [] code \in {80, 81} -> "Regenschauer"
      [] code = 82 -> "Starke Schauer"
      [] code = 85 -> "Schneeschauer"
      [] code = 86 -> "Starke Schneeschauer"
      [] code = 95 -> "Gewitter"
      [] code = 96 -> "Gewitter & Hagel"
      [] code = 99 -> "Schweres Gewitter"

weatherCodeMap ==
    [code \in WeatherCodes |->
        [condition |-> Condition(code),
         image |-> IF code \in SunnyPng THEN "sunny.png"
                   ELSE IF code \in CloudySunnyPng THEN "cloudy_sunny.png"
                   ELSE IF code \in CloudyPng THEN "cloudy.png"
                   ELSE "sunny_rain.png",
         background |-> IF code \in SunnyPng \cup CloudySunnyPng THEN "sunny" ELSE "cloudy"]]

\* getWeatherInfo, had it no default for a code outside the table
getWeatherInfo_NoDefault(weatherCode) ==
    IF weatherCode \in DOMAIN weatherCodeMap
    THEN weatherCodeMap[weatherCode]
    ELSE [condition |-> "undefined", image |-> "undefined", background |-> "undefined"]

getWeatherInfo(weatherCode) ==
    IF weatherCode \in DOMAIN weatherCodeMap
    THEN weatherCodeMap[weatherCode]
    ELSE [condition |-> "Klarer Himmel", image |-> "sunny.png", background |-> "sunny"]

\* what the weather endpoint can answer: data.current, temperatures and wind in
\* tenths and hundredths of the unit
CurrentSamples ==
    {[temperature_2m |-> 214, apparent_temperature |-> 195, relative_humidity_2m |-> 40,
      weather_code |-> 0, wind_speed_10m |-> 1234],
     [temperature_2m |-> -5, apparent_temperature |-> -36, relative_humidity_2m |-> 90,
      weather_code |-> 61, wind_speed_10m |-> 2075]}

\* Math.round on a value given in tenths
Round(tenths) == (tenths + 5) \div 10

\* a string property that is present and not empty
Truthy(obj, key) == Has(obj, key) /\ obj[key] # ""

\* getCurrentWeather, after a successful response with data.current = current
WeatherData(coordinates, current) ==
    LET weatherInfo == getWeatherInfo(current.weather_code)
        base == [temperature |-> Round(current.temperature_2m),
                 feelsLike |-> Round(current.apparent_temperature),
                 humidity |-> current.relative_humidity_2m,
                 windSpeed |-> Round(current.wind_speed_10m),  \* in tenths of km/h
                 weatherCode |-> current.weather_code,
                 weatherDescription |-> weatherInfo.condition,
                 cityName |-> coordinates.name,
                 postcodes |-> IF Has(coordinates, "postcodes")
                               THEN coordinates.postcodes ELSE <<>>]
    IN IF Has(coordinates, "country") /\ coordinates.country # ""
       THEN [k \in DOMAIN base \cup {"country"} |->
                IF k = "country" THEN coordinates.country ELSE base[k]]
       ELSE base

(***************************************************************************)
(* index.ts: texts.                                                        *)
(***************************************************************************)
generateSearchText(coordinates) ==
    <<coordinates.name>>
        \o (IF Has(coordinates, "country") /\ coordinates.country # ""
            THEN <<", ", coordinates.country>> ELSE <<>>)
        \o (IF Has(coordinates, "postcodes") /\ Len(coordinates.postcodes) > 0
            THEN <<" (PLZ: ", coordinates.postcodes[1], ")">> ELSE <<>>)

\* `${cityName}, ${country}` or cityName
FullCityName(weatherData) ==
    IF Has(weatherData, "country")
    THEN <<weatherData.cityName, ", ", weatherData.country>>
    ELSE <<weatherData.cityName>>

\* the postal-code text of updateWeatherDisplay; <<>> when the element is hidden
PostalText(postcodes) ==
    IF Len(postcodes) = 0 THEN <<>>
    ELSE <<"PLZ: ", postcodes[1]>>
            \o (IF Len(postcodes) > 1 THEN <<", ", postcodes[2]>> ELSE <<>>)
            \o (IF Len(postcodes) > 2 THEN <<", ", postcodes[3]>> ELSE <<>>)
            \o (IF Len(postcodes) > 3 THEN <<", +", Len(postcodes) - 3, " more">> ELSE <<>>)

ButtonIdle == [disabled |-> FALSE, label |-> "Wetter abrufen"]
ButtonBusy == [disabled |-> TRUE, label |-> "Laedt..."]

InitialDisplay ==
    [temperature |-> <<>>, feelsLike |-> <<>>, weatherType |-> <<>>, city |-> <<>>,
     postalText |-> <<>>, postalShown |-> FALSE, humidity |-> <<>>, windSpeed |-> <<>>,
     image |-> ""]

(***************************************************************************)
(* The page as one record, so that a handler is an operator from the state *)
(* before it to the state after it and listeners compose in the order the  *)
(* browser calls them.                                                     *)
(***************************************************************************)
State ==
    [localStorage |-> localStorage, storageMode |-> storageMode, now |-> now,
     page |-> page, weatherReqs |-> weatherReqs, display |-> display,
     weatherDataHidden |-> weatherDataHidden,
     weatherLoadingHidden |-> weatherLoadingHidden,
     loadingIndicatorHidden |-> loadingIndicatorHidden, button |-> button,
     currentCoordinates |-> currentCoordinates, searchValue |-> searchValue,
     placeholder |-> placeholder, themeTimers |-> themeTimers,
     themeFrames |-> themeFrames, bodyClasses |-> bodyClasses,
     timer |-> timer, selectedIndex |-> selectedIndex,
     currentResults |-> currentResults, items |-> items, resultsHidden |-> resultsHidden,
     activeDescendant |-> activeDescendant, geoReqs |-> geoReqs,
     initialLoads |-> initialLoads, bootFetches |-> bootFetches,
     bootFailures |-> bootFailures, bootRetries |-> bootRetries, queries |-> queries,
     quietPeriods |-> quietPeriods, inputs |-> inputs, closedAt |-> closedAt]

Becomes(s) ==
    /\ localStorage' = s.localStorage
    /\ storageMode' = s.storageMode
    /\ now' = s.now
    /\ page' = s.page
    /\ weatherReqs' = s.weatherReqs
    /\ display' = s.display
    /\ weatherDataHidden' = s.weatherDataHidden
    /\ weatherLoadingHidden' = s.weatherLoadingHidden
    /\ loadingIndicatorHidden' = s.loadingIndicatorHidden
    /\ button' = s.button
    /\ currentCoordinates' = s.currentCoordinates
    /\ searchValue' = s.searchValue
    /\ placeholder' = s.placeholder
    /\ themeTimers' = s.themeTimers
    /\ themeFrames' = s.themeFrames
    /\ bodyClasses' = s.bodyClasses
    /\ timer' = s.timer
    /\ selectedIndex' = s.selectedIndex
    /\ currentResults' = s.currentResults
    /\ items' = s.items
    /\ resultsHidden' = s.resultsHidden
    /\ activeDescendant' = s.activeDescendant
    /\ geoReqs' = s.geoReqs
    /\ initialLoads' = s.initialLoads
    /\ bootFetches' = s.bootFetches
    /\ bootFailures' = s.bootFailures
    /\ bootRetries' = s.bootRetries
    /\ queries' = s.queries
    /\ quietPeriods' = s.quietPeriods
    /\ inputs' = s.inputs
    /\ closedAt' = s.closedAt
    /\ UNCHANGED <<ticks, driverVars, lookupVars>>

Holds(s) ==
    /\ localStorage = s.localStorage
    /\ storageMode = s.storageMode
    /\ now = s.now
    /\ page = s.page
    /\ weatherReqs = s.weatherReqs
    /\ display = s.display
    /\ weatherDataHidden = s.weatherDataHidden
    /\ weatherLoadingHidden = s.weatherLoadingHidden
    /\ loadingIndicatorHidden = s.loadingIndicatorHidden
    /\ button = s.button
    /\ currentCoordinates = s.currentCoordinates
    /\ searchValue = s.searchValue
    /\ placeholder = s.placeholder
    /\ themeTimers = s.themeTimers
    /\ themeFrames = s.themeFrames
    /\ bodyClasses = s.bodyClasses
    /\ timer = s.timer
    /\ selectedIndex = s.selectedIndex
    /\ currentResults = s.currentResults
    /\ items = s.items
    /\ resultsHidden = s.resultsHidden
    /\ activeDescendant = s.activeDescendant
    /\ geoReqs = s.geoReqs
    /\ initialLoads = s.initialLoads
    /\ bootFetches = s.bootFetches
    /\ bootFailures = s.bootFailures
    /\ bootRetries = s.bootRetries
    /\ queries = s.queries
    /\ quietPeriods = s.quietPeriods
    /\ inputs = s.inputs
    /\ closedAt = s.closedAt

RemoveAt(seq, k) == SubSeq(seq, 1, k - 1) \o SubSeq(seq, k + 1, Len(seq))

(***************************************************************************)
(* index.ts: the display controller.                                       *)
(***************************************************************************)
showLoadingState(s) ==
    [s EXCEPT !.weatherLoadingHidden = FALSE, !.weatherDataHidden = TRUE]

showWeatherData(s) ==
    [s EXCEPT !.weatherLoadingHidden = TRUE, !.weatherDataHidden = FALSE]

updateWeatherDisplay(s, weatherData) ==
    LET postcodes == weatherData.postcodes
        shown == [temperature |-> <<weatherData.temperature, "°C">>,
                  feelsLike |-> <<weatherData.feelsLike, "°C">>,
                  weatherType |-> <<weatherData.weatherDescription>>,
                  city |-> FullCityName(weatherData),
                  postalText |-> IF Len(postcodes) > 0
                                 THEN PostalText(postcodes) ELSE s.display.postalText,
                  postalShown |-> Len(postcodes) > 0,
                  humidity |-> <<weatherData.humidity, "%">>,
                  windSpeed |-> <<weatherData.windSpeed, " km/h">>,
                  image |-> getWeatherInfo(weatherData.weatherCode).image]
    IN \* setTimeout(() => updateBackgroundTheme(weatherInfo.background), 100)
       [showWeatherData([s EXCEPT !.display = shown]) EXCEPT
            !.themeTimers = Append(@, getWeatherInfo(weatherData.weatherCode).background)]

\* updateBackgroundTheme up to its requestAnimationFrame
updateBackgroundTheme(s, backgroundType) ==
    [s EXCEPT !.bodyClasses = @ \ {"sunny", "cloudy"},
              !.themeFrames = Append(@, backgroundType)]

\* the requestAnimationFrame callback of updateBackgroundTheme
addBackgroundClass(s, backgroundType) ==
    [s EXCEPT !.bodyClasses = @ \cup {backgroundType}]

\* isStorageAvailable: the probe key can be written and removed
isStorageAvailable(s) == s.storageMode \in {"ok", "tight"}

\* fetchWeatherData up to its await: the spinner, the button, the request.
\* cont says who awaits the call: "select" (the citySelected listener), "submit"
\* (the click listener), or loadInitialWeather's branch "saved" / "berlin" / "retry".
\* overtaken is an observer, read by no handler: the request was in flight when
\* the user cleared the cache and the user has not selected or submitted since
fetchWeatherData(s, coordinates, saveToStorage, showLoading, cont) ==
    LET s1 == IF showLoading THEN showLoadingState(s) ELSE s
        earlier == IF saveToStorage
                   THEN [k \in 1..Len(s.weatherReqs) |->
                            [s.weatherReqs[k] EXCEPT !.overtaken = FALSE]]
                   ELSE s.weatherReqs
    IN [s1 EXCEPT !.button = ButtonBusy,
                  !.weatherReqs = Append(earlier, [coordinates |-> coordinates,
                                                   saveToStorage |-> saveToStorage,
                                                   cont |-> cont,
                                                   overtaken |-> FALSE])]

\* fetchWeatherData after getCurrentWeather returned weatherData, had a failing
\* save reached the catch block of fetchWeatherData
fetchWeatherDataResolved_SaveThrows(s, req, weatherData) ==
    LET s1 == updateWeatherDisplay(s, weatherData)
    IN IF req.saveToStorage /\ isStorageAvailable(s1)
       THEN IF s1.storageMode = "ok"
            THEN [s1 EXCEPT !.localStorage =
                        saveLastCity(req.coordinates, generateSearchText(req.coordinates),
                                     s1.localStorage, s1.storageMode, s1.now),
                            !.button = ButtonIdle]
            ELSE [showWeatherData(s1) EXCEPT
                        !.display.city = <<"Fehler beim Laden der Wetterdaten">>,
                        !.display.weatherType = <<"Bitte versuchen Sie es erneut">>,
                        !.button = ButtonIdle]
       ELSE [s1 EXCEPT !.button = ButtonIdle]

\* fetchWeatherData after getCurrentWeather returned weatherData
fetchWeatherDataResolved(s, req, weatherData) ==
    LET s1 == updateWeatherDisplay(s, weatherData)
        s2 == IF req.saveToStorage /\ isStorageAvailable(s1)
              THEN [s1 EXCEPT !.localStorage =
                        saveLastCity(req.coordinates, generateSearchText(req.coordinates),
                                     s1.localStorage, s1.storageMode, s1.now)]
              ELSE s1
    IN [s2 EXCEPT !.button = ButtonIdle]

\* fetchWeatherData after getCurrentWeather threw, had it no catch and no finally
fetchWeatherDataRejected_NoCleanup(s) == s

\* fetchWeatherData after getCurrentWeather threw, had it reset the readings
fetchWeatherDataRejected_Blanking(s) ==
    LET s1 == showWeatherData(s)
    IN [s1 EXCEPT !.display.city = <<"Fehler beim Laden der Wetterdaten">>,
                  !.display.weatherType = <<"Bitte versuchen Sie es erneut">>,
                  !.display.temperature = <<>>,
                  !.button = ButtonIdle]

\* fetchWeatherData after getCurrentWeather threw
fetchWeatherDataRejected(s) ==
    LET s1 == showWeatherData(s)
    IN [s1 EXCEPT !.display.city = <<"Fehler beim Laden der Wetterdaten">>,
                  !.display.weatherType = <<"Bitte versuchen Sie es erneut">>,
                  !.button = ButtonIdle]

\* fetchWeatherData catches every failure of the request: its promise never rejects
fetchWeatherDataThrows == FALSE

\* loadInitialWeather, had it left saveToStorage at its default of true
loadInitialWeather_Saving(s) ==
    LET r == getLastCity(s.localStorage, s.storageMode, s.now, DefaultMaxAgeHours)
        lastCity == r.city
        s1 == [s EXCEPT !.localStorage = r.item, !.initialLoads = @ + 1,
                        !.bootFetches = @ + 1]
    IN IF lastCity # Null
       THEN fetchWeatherData([s1 EXCEPT !.loadingIndicatorHidden = FALSE],
                             lastCity, TRUE, FALSE, "saved")
       ELSE fetchWeatherData([s1 EXCEPT !.weatherLoadingHidden = TRUE],
                             getBerlinCoordinates, TRUE, FALSE, "berlin")

\* loadInitialWeather up to its await
loadInitialWeather(s) ==
    LET r == getLastCity(s.localStorage, s.storageMode, s.now, DefaultMaxAgeHours)
        lastCity == r.city
        s1 == [s EXCEPT !.localStorage = r.item, !.initialLoads = @ + 1,
                        !.bootFetches = @ + 1]
    IN IF lastCity # Null
       THEN fetchWeatherData([s1 EXCEPT !.loadingIndicatorHidden = FALSE],
                             lastCity, FALSE, FALSE, "saved")
       ELSE fetchWeatherData([s1 EXCEPT !.weatherLoadingHidden = TRUE],
                             getBerlinCoordinates, FALSE, FALSE, "berlin")

\* loadInitialWeather after the awaited fetchWeatherData(req.coordinates) settled
loadInitialWeatherResumed(s, req) ==
    IF fetchWeatherDataThrows /\ req.cont # "retry"
    THEN \* catch: ultimate fallback to Berlin
         LET s1 == [s EXCEPT !.weatherLoadingHidden = TRUE, !.bootRetries = @ + 1]
         IN fetchWeatherData(s1, getBerlinCoordinates, FALSE, FALSE, "retry")
    ELSE [s EXCEPT !.placeholder =
                        <<"Aktuell: ">> \o
                            (IF req.cont = "saved"
                             THEN (IF Has(req.coordinates, "searchText")
                                   THEN req.coordinates.searchText ELSE <<"undefined">>)
                             ELSE generateSearchText(req.coordinates)),
                   !.searchValue = "",
                   !.currentCoordinates = req.coordinates,
                   !.loadingIndicatorHidden = TRUE]

\* initializePageState, had it shown the result section whatever the cache holds
initializePageState_ShowsResult(s) ==
    LET r == getLastCity(s.localStorage, s.storageMode, s.now, DefaultMaxAgeHours)
    IN [s EXCEPT !.localStorage = r.item,
                 !.weatherLoadingHidden = TRUE, !.weatherDataHidden = FALSE]

initializePageState(s) ==
    LET r == getLastCity(s.localStorage, s.storageMode, s.now, DefaultMaxAgeHours)
        s1 == [s EXCEPT !.localStorage = r.item]
    IN IF r.city # Null
       THEN [s1 EXCEPT !.weatherLoadingHidden = FALSE, !.weatherDataHidden = TRUE]
       ELSE [s1 EXCEPT !.weatherLoadingHidden = TRUE, !.weatherDataHidden = FALSE]

\* the two DOMContentLoaded listeners, in the order they were registered
DOMContentLoadedListeners(s) ==
    loadInitialWeather(loadInitialWeather(initializePageState(s)))

(***************************************************************************)
(* weather-api.ts: searchCities.  The geocoding endpoint answers a query   *)
(* with its results array (none for an unknown name), or the request fails.*)
(***************************************************************************)
GeoApi(query) ==
    IF query = "par"
    THEN [results |->
            <<[latitude |-> 48853, longitude |-> 2349, name |-> "Paris",
               country |-> "France", postcodes |-> <<"75001">>],
              [latitude |-> 51477, longitude |-> 0, name |-> "Meridian",
               admin1 |-> "UK", postcodes |-> <<"SE10">>]>>]
    ELSE [generationtime_ms |-> 1]

\* one element of data.results.map(...)
ToCoordinates(result) ==
    LET base == [lat |-> result.latitude, lon |-> result.longitude, name |-> result.name,
                 postcodes |-> IF Has(result, "postcodes") THEN result.postcodes ELSE <<>>]
        country == IF Truthy(result, "country") THEN result.country
                   ELSE IF Has(result, "admin1") THEN result.admin1 ELSE ""
    IN IF Truthy(result, "country") \/ Has(result, "admin1")
       THEN [k \in DOMAIN base \cup {"country"} |->
                IF k = "country" THEN country ELSE base[k]]
       ELSE base

\* how a geocoding request can end: an answer, fetch rejects, response.ok is
\* false, response.json() rejects
GeoOutcomes == {"ok", "network", "status", "decode"}

\* searchCities, had it returned the candidates whatever the outcome
searchCitiesResult_Unguarded(query, outcome) ==
    LET data == GeoApi(query)
    IN IF ~Has(data, "results") THEN <<>>
       ELSE [k \in 1..Len(data.results) |-> ToCoordinates(data.results[k])]

\* what searchCities(query) returns once its request settled with outcome
searchCitiesResult(query, outcome) ==
    IF outcome # "ok" THEN <<>>      \* catch: return []
    ELSE LET data == GeoApi(query)
         IN IF ~Has(data, "results") THEN <<>>
            ELSE [k \in 1..Len(data.results) |-> ToCoordinates(data.results[k])]

Trim(text) == IF text = " " THEN "" ELSE text

(***************************************************************************)
(* search.ts: the autocomplete.                                            *)
(***************************************************************************)
Controllers == {1, 2}      \* one closure per initSearch() call of index.ts

Min(a, b) == IF a < b THEN a ELSE b
Max(a, b) == IF a > b THEN a ELSE b

NoResultsEntry == [city |-> Null, id |-> <<>>, ariaSelected |-> "unset"]

hideResults(s) ==
    [s EXCEPT !.items = <<>>, !.resultsHidden = TRUE,
              !.closedAt = IF s.resultsHidden THEN @ ELSE s.inputs]

showResults(s, matches) ==
    [s EXCEPT !.currentResults = matches,
              !.items = IF Len(matches) = 0 THEN <<NoResultsEntry>>
                        ELSE [k \in 1..Len(matches) |->
                                [city |-> matches[k], id |-> <<"result-", k - 1>>,
                                 ariaSelected |-> "unset"]],
              !.resultsHidden = FALSE]

\* updateSelection(items, index): index counts from 0
updateSelection(s, index) ==
    [s EXCEPT !.items = [k \in 1..Len(s.items) |->
                            [s.items[k] EXCEPT !.ariaSelected =
                                IF k - 1 = index THEN "true" ELSE "false"]],
              !.activeDescendant = IF index >= 0 /\ index < Len(s.items)
                                   THEN s.items[index + 1].id ELSE @]

\* the citySelected listener of index.ts
citySelectedListener(s, city) ==
    fetchWeatherData([s EXCEPT !.currentCoordinates = city], city, TRUE, TRUE, "select")

selectCity(s, city) ==
    LET s1 == [s EXCEPT !.searchValue = "",
                        !.placeholder = <<"Aktuell: ">> \o generateSearchText(city)]
        s2 == hideResults(s1)
    IN citySelectedListener(s2, city)   \* document.dispatchEvent(event)

\* the keydown listener controller i registered on the search input
searchKeydown(s, i, key) ==
    LET count == Len(s.items)       \* results.querySelectorAll('li[role="option"]')
        index == s.selectedIndex[i]
    IN CASE key = "ArrowDown" ->
              LET next == Min(index + 1, count - 1)
              IN updateSelection([s EXCEPT !.selectedIndex[i] = next], next)
         [] key = "ArrowUp" ->
              LET next == Max(index - 1, -1)
              IN updateSelection([s EXCEPT !.selectedIndex[i] = next], next)
         [] key = "Enter" ->
              IF index >= 0 /\ index < Len(s.currentResults) /\ index < count
              THEN selectCity(s, s.currentResults[index + 1])
              ELSE s
         [] key = "Escape" ->
              [hideResults(s) EXCEPT !.selectedIndex[i] = -1]
         [] OTHER -> s

\* the document click listeners of the controllers, for a click whose target is
\* neither in the search input nor in the results list
documentClick(s) == hideResults(hideResults(s))

\* the debounced handler of controller i after searchCities returned matches
debouncedResumed(s, i, matches) ==
    [showResults(s, matches) EXCEPT !.selectedIndex[i] = -1]

\* the submit click listener after searchCities returned cities
submitClickResumed(s, cities) ==
    IF Len(cities) > 0
    THEN fetchWeatherData([s EXCEPT !.currentCoordinates = cities[1]],
                          cities[1], TRUE, TRUE, "submit")
    ELSE [s EXCEPT !.display.city = <<"Stadt nicht gefunden">>,
                   !.display.weatherType = <<"Bitte versuchen Sie eine andere Stadt">>]

\* searchCities(query) called by the submit listener (origin 0) or by the
\* debounced handler of controller origin: a blank query returns [] without a
\* request and the caller goes on, any other query is sent.  The request notes
\* the number of the input event it follows (an observer, read by no handler)
searchCities(s, origin, query) ==
    IF Trim(query) = ""
    THEN IF origin = 0 THEN submitClickResumed(s, <<>>)
         ELSE debouncedResumed(s, origin, <<>>)
    ELSE [s EXCEPT !.geoReqs = Append(@, [origin |-> origin, query |-> Trim(query),
                                          input |-> s.inputs])]

\* the click listener of the submit button; the geocoding request follows the
\* dynamic import, which changes nothing
submitClick(s) ==
    IF s.currentCoordinates # Null
    THEN fetchWeatherData(s, s.currentCoordinates, TRUE, TRUE, "submit")
    ELSE LET cityName == Trim(s.searchValue)
         IN IF cityName = ""
            THEN [s EXCEPT !.placeholder = <<"Stadtname zum Suchen eingeben...">>]
            ELSE searchCities(s, 0, cityName)

\* button.click(): nothing on a disabled button, else the click event on the
\* button, which bubbles to the document
buttonClick(s) ==
    IF s.button.disabled THEN s ELSE documentClick(submitClick(s))

\* the keydown listener of index.ts on the search input (Enter without modifiers)
submitKeydown(s, key) == IF key = "Enter" THEN buttonClick(s) ELSE s

\* keydown on the search input: the listeners in the order they were registered
\* (initSearch, index.ts, initSearch)
searchKeydownListeners(s, key) ==
    searchKeydown(submitKeydown(searchKeydown(s, 1, key), key), 2, key)

\* input on the search input: debounced() of controller 1, index.ts, controller 2
inputListeners(s) ==
    [s EXCEPT !.timer = [i \in Controllers |-> TRUE], !.currentCoordinates = Null]

\* the debounced handler of controller i, had it no test for a blank value
debounced_Unguarded(s, i) ==
    searchCities([s EXCEPT !.queries = IF Trim(s.searchValue) = "" THEN @ ELSE @ + 1],
                 i, Trim(s.searchValue))

\* the debounced handler of controller i up to its await
debounced(s, i) ==
    LET value == Trim(s.searchValue)
    IN IF value = "" THEN hideResults(s)
       ELSE searchCities([s EXCEPT !.queries = @ + 1], i, value)

(***************************************************************************)
(* The application: page load, the network, the user.                      *)
(***************************************************************************)
MaxInputs == 2        \* input events per behaviour
MaxInFlight == 3      \* a user event may start a weather request below this many in flight
MaxGeoInFlight == 2   \* the submit control may start a geocoding request below this many
MaxThemePending == 2  \* a user event may start a request below this many pending theme updates

InputValues == {"", " ", "par", "zzz"}
Keys == {"ArrowDown", "ArrowUp", "Enter", "Escape"}

\* the cache slot at page load: empty, unparseable, a city saved within the last
\* 24 hours, a city saved earlier, a record with a coordinate of 0, a record
\* without searchText
AppStoredItems ==
    LET text == generateSearchText(Paris)
    IN {NoItem, Garbage, JsonNull,
        Stringify(Without(CityData(Paris, text, StartTime), "name")),
        Stringify(CityData(Paris, text, StartTime - DefaultMaxAgeHours * MsPerHour)),
        Stringify(CityData(Sydney, generateSearchText(Sydney), StartTime - MsPerHour)),
        Stringify(CityData(Paris, text, StartTime - DefaultMaxAgeHours * MsPerHour - 1)),
        Stringify(CityData(OnMeridian, generateSearchText(OnMeridian), StartTime - 1)),
        Stringify(Without(CityData(Sydney, generateSearchText(Sydney), StartTime - 1),
                          "searchText"))}

CacheDriverIdle ==
    /\ ticks = 0
    /\ cacheOp = "init" /\ prevOp = "init" /\ saved = Null /\ loaded = Null
    /\ loadedFrom = NoItem /\ loadedAge = DefaultMaxAgeHours /\ staleSeen = FALSE

DriverIdle == CacheDriverIdle /\ lookupCode = 0 /\ lookupInfo = Null

\* the page after index.ts was evaluated: both initSearch() calls and every
\* addEventListener done, DOMContentLoaded not yet dispatched
Evaluated(item, mode) ==
    [localStorage |-> item, storageMode |-> mode, now |-> StartTime,
     page |-> "evaluated", weatherReqs |-> <<>>, display |-> InitialDisplay,
     weatherDataHidden |-> FALSE, weatherLoadingHidden |-> FALSE,
     loadingIndicatorHidden |-> TRUE, button |-> ButtonIdle,
     currentCoordinates |-> Null, searchValue |-> "", placeholder |-> <<>>,
     themeTimers |-> <<>>, themeFrames |-> <<>>, bodyClasses |-> {},
     timer |-> [i \in Controllers |-> FALSE],
     selectedIndex |-> [i \in Controllers |-> -1],
     currentResults |-> <<>>, items |-> <<>>, resultsHidden |-> TRUE,
     activeDescendant |-> <<>>, geoReqs |-> <<>>,
     initialLoads |-> 0, bootFetches |-> 0, bootFailures |-> 0,
     bootRetries |-> 0, queries |-> 0, quietPeriods |-> 0, inputs |-> 0, closedAt |-> 0]

\* storage as the page can meet it
PageStorageModes == StorageModes \cup {"tight"}

Init ==
    /\ DriverIdle
    /\ \E mode \in PageStorageModes :
         \E item \in (IF mode = "disabled" THEN {NoItem} ELSE AppStoredItems) :
            Holds(Evaluated(item, mode))

DOMContentLoaded ==
    /\ page = "evaluated"
    /\ Becomes([DOMContentLoadedListeners(State) EXCEPT !.page = "loaded"])

IsBoot(req) == req.cont \in {"saved", "berlin", "retry"}

\* the weather request k settles; loadInitialWeather resumes if it awaited it
Settled(s, req) == IF IsBoot(req) THEN loadInitialWeatherResumed(s, req) ELSE s

\* getCurrentWeather of request k returns the weather built from current
WeatherResolvesAt(k, current) ==
    LET req == weatherReqs[k]
        s0 == [State EXCEPT !.weatherReqs = RemoveAt(@, k)]
    IN Becomes(Settled(
           fetchWeatherDataResolved(s0, req, WeatherData(req.coordinates, current)),
           req))

WeatherResolves ==
    \E k \in 1..Len(weatherReqs), current \in CurrentSamples : WeatherResolvesAt(k, current)

\* getCurrentWeather of request k throws
WeatherFailsAt(k) ==
    LET req == weatherReqs[k]
        s0 == [State EXCEPT !.weatherReqs = RemoveAt(@, k),
                            !.bootFailures = IF req.cont \in {"saved", "berlin"}
                                             THEN @ + 1 ELSE @]
    IN Becomes(Settled(fetchWeatherDataRejected(s0), req))

WeatherFails == \E k \in 1..Len(weatherReqs) : WeatherFailsAt(k)

\* the geocoding request k ends with outcome, had the caller discarded the
\* answer to a query that is not the latest one in flight
GeoSettlesAt_LatestOnly(k, outcome) ==
    LET req == geoReqs[k]
        s0 == [State EXCEPT !.geoReqs = RemoveAt(@, k)]
        matches == searchCitiesResult(req.query, outcome)
    IN Becomes(IF \E j \in (k + 1)..Len(geoReqs) : geoReqs[j].query # req.query
               THEN s0
               ELSE IF req.origin = 0 THEN submitClickResumed(s0, matches)
               ELSE debouncedResumed(s0, req.origin, matches))

\* the geocoding request k ends with outcome; its caller goes on
GeoSettlesAt(k, outcome) ==
    LET req == geoReqs[k]
        s0 == [State EXCEPT !.geoReqs = RemoveAt(@, k)]
        matches == searchCitiesResult(req.query, outcome)
    IN Becomes(IF req.origin = 0 THEN submitClickResumed(s0, matches)
               ELSE debouncedResumed(s0, req.origin, matches))

GeoSettles == \E k \in 1..Len(geoReqs), outcome \in GeoOutcomes : GeoSettlesAt(k, outcome)

\* controller i's debounce timer fires; timers armed by the same input event
\* with the same delay fire in the order they were armed
TimerFires ==
    \E i \in Controllers :
        /\ timer[i]
        /\ \A j \in Controllers : j < i => ~timer[j]
        /\ LET quiet == (\A j \in Controllers : timer[j]) /\ Trim(searchValue) # ""
               s0 == [State EXCEPT !.timer[i] = FALSE,
                                   !.quietPeriods = IF quiet THEN @ + 1 ELSE @]
           IN Becomes(debounced(s0, i))

\* the oldest theme timer fires: timers of equal delay fire in the order set
ThemeTimerFires ==
    /\ themeTimers # <<>>
    /\ Becomes(updateBackgroundTheme([State EXCEPT !.themeTimers = Tail(@)],
                                     Head(themeTimers)))

RECURSIVE RunFrames(_, _)
RunFrames(s, callbacks) ==
    IF callbacks = <<>> THEN s
    ELSE RunFrames(addBackgroundClass(s, Head(callbacks)), Tail(callbacks))

\* the next animation frame: every callback requested since the last one runs
AnimationFrame ==
    /\ themeFrames # <<>>
    /\ Becomes(RunFrames([State EXCEPT !.themeFrames = <<>>], themeFrames))

Ready == page = "loaded"
MayRequest ==
    /\ Len(weatherReqs) < MaxInFlight
    /\ Len(geoReqs) < MaxGeoInFlight
    /\ Len(themeTimers) + Len(themeFrames) < MaxThemePending

InputOf(v) ==
    /\ Ready
    /\ v # searchValue
    /\ inputs < MaxInputs
    /\ Becomes(inputListeners([State EXCEPT !.searchValue = v, !.inputs = @ + 1]))

Input == \E v \in InputValues : InputOf(v)

KeyDownOf(key) ==
    /\ Ready
    /\ key = "Enter" => MayRequest
    /\ Becomes(searchKeydownListeners(State, key))

KeyDown == \E key \in Keys : KeyDownOf(key)

\* a click on entry k: its own listener, then the document's
ClickEntryAt(k) ==
    /\ Ready /\ MayRequest
    /\ items[k].city # Null
    /\ Becomes(documentClick(selectCity(State, items[k].city)))

ClickEntry == \E k \in 1..Len(items) : ClickEntryAt(k)

\* Enter or Space on the focused entry k
EntryKeydownAt(k) ==
    /\ Ready /\ MayRequest
    /\ items[k].city # Null
    /\ Becomes(selectCity(State, items[k].city))

EntryKeydown == \E k \in 1..Len(items) : EntryKeydownAt(k)

ClickOutside ==
    /\ Ready
    /\ items # <<>>
    /\ Becomes(documentClick(State))

ClickSubmit ==
    /\ Ready /\ MayRequest
    /\ ~button.disabled
    /\ Becomes(buttonClick(State))

\* Ctrl+Shift+C
ClearShortcut ==
    /\ Ready
    /\ Becomes([State EXCEPT !.localStorage = clearLastCity(localStorage, storageMode),
                             !.weatherReqs = [k \in 1..Len(weatherReqs) |->
                                                [weatherReqs[k] EXCEPT !.overtaken = TRUE]]])

Next ==
    \/ DOMContentLoaded
    \/ WeatherResolves
    \/ WeatherFails
    \/ GeoSettles
    \/ TimerFires
    \/ Input
    \/ KeyDown
    \/ ClickEntry
    \/ EntryKeydown
    \/ ClickOutside
    \/ ClickSubmit
    \/ ClearShortcut
    \/ ThemeTimerFires
    \/ AnimationFrame

Spec == Init /\ [][Next]_vars

\* bootstrap alone: page load and the answers to its requests, no user event
BootNext ==
    \/ DOMContentLoaded
    \/ WeatherResolves
    \/ WeatherFails
    \/ ThemeTimerFires
    \/ AnimationFrame

SpecBoot == Init /\ [][BootNext]_vars

\* the page once bootstrap has finished: both initial requests answered, the
\* theme applied
Booted(item, mode) ==
    LET s1 == [DOMContentLoadedListeners(Evaluated(item, mode)) EXCEPT !.page = "loaded"]
        current == CHOOSE c \in CurrentSamples : c.weather_code = 0
        Answer(s) == LET req == s.weatherReqs[1]
                         s0 == [s EXCEPT !.weatherReqs = RemoveAt(@, 1)]
                     IN Settled(fetchWeatherDataResolved(
                                    s0, req, WeatherData(req.coordinates, current)), req)
        Theme(s) == updateBackgroundTheme([s EXCEPT !.themeTimers = Tail(@)],
                                          Head(s.themeTimers))
        s2 == Theme(Theme(Answer(Answer(s1))))
    IN RunFrames([s2 EXCEPT !.themeFrames = <<>>], s2.themeFrames)

\* the autocomplete alone: typing, the debounce timers, the geocoding answers,
\* the keyboard and the mouse; weather requests are started and stay in flight
SearchInit == DriverIdle /\ Holds(Booted(NoItem, "ok"))

SearchNext ==
    \/ GeoSettles
    \/ TimerFires
    \/ Input
    \/ KeyDown
    \/ ClickEntry
    \/ EntryKeydown
    \/ ClickOutside

SpecSearch == SearchInit /\ [][SearchNext]_vars

\* typing alone: input events, the debounce timers, the geocoding answers and
\* clicks outside the list
TypeNext ==
    \/ GeoSettles
    \/ TimerFires
    \/ Input
    \/ ClickOutside

SpecType == SearchInit /\ [][TypeNext]_vars

\* the page after the user typed "par" into the booted page and the list of
\* matches came up: the input event, both debounce timers, both answers
Listed(item, mode) ==
    LET typed == inputListeners([Booted(item, mode) EXCEPT !.searchValue = "par", !.inputs = @ + 1])
        Fire(s, i) == debounced([s EXCEPT !.timer[i] = FALSE], i)
        Answer(s) == LET req == s.geoReqs[1]
                     IN debouncedResumed([s EXCEPT !.geoReqs = RemoveAt(@, 1)], req.origin,
                                         searchCitiesResult(req.query, "ok"))
    IN Answer(Answer(Fire(Fire([typed EXCEPT !.quietPeriods = @ + 1], 1), 2)))

\* choosing a city: the commits on the list and on the submit control, the
\* answers to the requests they start, the clear shortcut
SavedEarlier == Stringify(CityData(Sydney, generateSearchText(Sydney), StartTime - MsPerHour))

UserInit ==
    /\ DriverIdle
    /\ \E mode \in PageStorageModes :
         \E item \in (IF mode = "disabled" THEN {NoItem} ELSE {NoItem, SavedEarlier}) :
            Holds(Listed(item, mode))

UserNext ==
    \/ WeatherResolves
    \/ WeatherFails
    \/ GeoSettles
    \/ ClickEntry
    \/ EntryKeydown
    \/ ClickSubmit
    \/ ClearShortcut
    \/ ThemeTimerFires
    \/ AnimationFrame

SpecUser == UserInit /\ [][UserNext]_vars

\* choosing again while a request is in flight: from the page of UserInit the
\* user selects, types again and selects from the new list, and the weather
\* requests are answered in any order
AgainNext ==
    \/ WeatherResolves
    \/ WeatherFails
    \/ GeoSettles
    \/ TimerFires
    \/ Input
    \/ ClickEntry
    \/ ThemeTimerFires
    \/ AnimationFrame

SpecAgain == UserInit /\ [][AgainNext]_vars

\* choosing during bootstrap: the page loads and the user types and selects
\* while the initial requests are in flight
EarlyNext ==
    \/ DOMContentLoaded
    \/ WeatherResolves
    \/ WeatherFails
    \/ GeoSettles
    \/ TimerFires
    \/ Input
    \/ ClickEntry

\* the evaluated page on working storage, the cache empty or holding the city
\* of an earlier visit
EarlyInit ==
    /\ DriverIdle
    /\ \E item \in {NoItem, SavedEarlier} : Holds(Evaluated(item, "ok"))

SpecEarly == EarlyInit /\ [][EarlyNext]_vars

\* the page from its load on: bootstrap, the commits and the submit control,
\* with every weather request answered in the end.  A behaviour starts at the
\* evaluated page or, to have the list of matches at hand, at the page of UserInit
PageInit == Init \/ UserInit

PageNext ==
    \/ DOMContentLoaded
    \/ WeatherResolves
    \/ WeatherFails
    \/ GeoSettles
    \/ ClickEntry
    \/ EntryKeydown
    \/ ClickSubmit
    \/ ThemeTimerFires
    \/ AnimationFrame

SpecPage == PageInit /\ [][PageNext]_vars

SpecPageLive == SpecPage /\ WF_vars(WeatherFails \/ WeatherResolves)

(***************************************************************************)
(* The condition lookup on its own: getWeatherInfo applied to a code of the *)
(* table or to one outside it.                                             *)
(***************************************************************************)
MaxCode == 99
CodeSamples == 0..MaxCode \cup {9999}

LookupInit ==
    /\ CacheDriverIdle
    /\ Holds(Evaluated(NoItem, "ok"))
    /\ lookupCode \in CodeSamples
    /\ lookupInfo = Null

Lookup ==
    /\ lookupInfo = Null
    /\ lookupInfo' = getWeatherInfo(lookupCode)
    /\ UNCHANGED <<lookupCode, cacheVars, driverVars, pageVars, searchVars, observerVars>>

SpecLookup == LookupInit /\ [][Lookup]_vars

(***************************************************************************)
(* What the storage slot can hold when the program first reads it: the     *)
(* slot is untrusted input (an older version, another script, the user).   *)
(***************************************************************************)
TimestampSamples ==
    {StartTime - DefaultMaxAgeHours * MsPerHour - 1,
     StartTime - DefaultMaxAgeHours * MsPerHour, StartTime + MsPerHour}

StoredShapes ==
    LET full == CityData(Paris, <<"Paris", ", ", "France", " (PLZ: ", "75001", ")">>, 0)
    IN {full, Without(full, "lat"), Without(full, "lon"), Without(full, "name"),
        [full EXCEPT !.lat = 0]}

StoredObjects ==
    {[o EXCEPT !.timestamp = ts] : o \in StoredShapes, ts \in TimestampSamples}
        \cup {Without(o, "timestamp") : o \in StoredShapes}

StoredItems == {NoItem, Garbage, JsonNull} \cup {Stringify(o) : o \in StoredObjects}

TextSamples == {<<>>, <<"Paris", ", ", "France">>}
MaxAgeSamples == {1, DefaultMaxAgeHours}
TickSamples == {1, DefaultMaxAgeHours * MsPerHour}

(***************************************************************************)
(* The cache driver: the operations of storage.ts applied in any order to  *)
(* any valid candidate and text, with the clock advancing in between.      *)
(***************************************************************************)
CacheInit ==
    /\ DriverIdle
    /\ \E mode \in StorageModes :
         \E item \in (IF mode = "disabled" THEN {NoItem} ELSE StoredItems) :
            Holds(Evaluated(item, mode))

CacheSave ==
    \E c \in Candidates, t \in TextSamples :
        /\ localStorage' = saveLastCity(c, t, localStorage, storageMode, now)
        /\ saved' = [c |-> c, t |-> t]
        /\ cacheOp' = "save"
        /\ prevOp' = cacheOp
        /\ staleSeen' = FALSE
        /\ UNCHANGED <<storageMode, now, ticks, loaded, loadedFrom, loadedAge>>
        /\ UNCHANGED <<pageVars, searchVars, observerVars, lookupVars>>

CacheLoad ==
    \E maxAgeHours \in MaxAgeSamples :
        LET r == getLastCity(localStorage, storageMode, now, maxAgeHours)
        IN /\ localStorage' = r.item
           /\ loaded' = r.city
           /\ loadedFrom' = localStorage
           /\ loadedAge' = maxAgeHours
           /\ cacheOp' = "load"
           /\ prevOp' = cacheOp
           /\ staleSeen' = (\/ staleSeen
                            \/ /\ localStorage.kind = "json"
                               /\ IsExpired(Parse(localStorage), now, maxAgeHours))
           /\ UNCHANGED <<storageMode, now, ticks, saved>>
           /\ UNCHANGED <<pageVars, searchVars, observerVars, lookupVars>>

CacheClear ==
    /\ localStorage' = clearLastCity(localStorage, storageMode)
    /\ cacheOp' = "clear"
    /\ prevOp' = cacheOp
    /\ UNCHANGED <<storageMode, now, ticks, saved, loaded, loadedFrom, loadedAge, staleSeen>>
    /\ UNCHANGED <<pageVars, searchVars, observerVars, lookupVars>>

CacheTick ==
    \E d \in TickSamples :
        /\ ticks < MaxTicks
        /\ now' = now + d
        /\ ticks' = ticks + 1
        /\ cacheOp' = "tick"
        /\ prevOp' = cacheOp
        /\ UNCHANGED <<localStorage, storageMode, saved, loaded, loadedFrom, loadedAge, staleSeen>>
        /\ UNCHANGED <<pageVars, searchVars, observerVars, lookupVars>>

CacheNext == CacheSave \/ CacheLoad \/ CacheClear \/ CacheTick

SpecCache == CacheInit /\ [][CacheNext]_vars

(***************************************************************************)
(* C1. Cache round-trip: with working storage, saveLastCity(c, t) followed *)
(* immediately by getLastCity() returns a record whose candidate fields    *)
(* equal c, whose searchText equals t and whose timestamp is <= now, for   *)
(* every valid candidate c and every text t.                               *)
(***************************************************************************)
CacheRoundTrip ==
    (cacheOp = "load" /\ prevOp = "save" /\ storageMode = "ok"
        /\ loadedAge = DefaultMaxAgeHours)
    => /\ loaded # Null
       /\ DOMAIN loaded = DOMAIN saved.c \cup {"timestamp", "searchText"}
       /\ \A k \in DOMAIN saved.c : loaded[k] = saved.c[k]
       /\ loaded.searchText = saved.t
       /\ loaded.timestamp <= now

(***************************************************************************)
(* C2. Cache expiry: a stored record whose timestamp is older than         *)
(* maxAgeHours is never returned by getLastCity, and every later           *)
(* getLastCity with no save in between returns none as well.               *)
(***************************************************************************)
ReadExpired ==
    /\ cacheOp = "load"
    /\ loadedFrom.kind = "json"
    /\ Has(Parse(loadedFrom), "timestamp")
    /\ now - Parse(loadedFrom).timestamp > loadedAge * MsPerHour

ExpiredNeverReturned ==
    /\ ReadExpired => loaded = Null
    /\ (cacheOp = "load" /\ staleSeen) => loaded = Null

\* a later load, after the clock moved, following the load that met the expired record
ExpiredWitness ==
    /\ cacheOp = "load" /\ prevOp = "tick" /\ staleSeen /\ ~ReadExpired
    /\ loaded = Null /\ localStorage = NoItem

(***************************************************************************)
(* C3. Cache validation: a stored record that lacks latitude, longitude or *)
(* name is never returned by getLastCity, whatever its timestamp is        *)
(* (missing and future timestamps included).                               *)
(***************************************************************************)
Lacks(obj) == ~Has(obj, "lat") \/ ~Has(obj, "lon") \/ ~Has(obj, "name")

ReadIncomplete ==
    /\ cacheOp = "load"
    /\ loadedFrom.kind = "json"
    /\ Lacks(Parse(loadedFrom))

IncompleteNeverReturned == ReadIncomplete => loaded = Null

\* a record without a name and with a timestamp in the future was read
IncompleteWitness ==
    /\ ReadIncomplete
    /\ ~Has(Parse(loadedFrom), "name")
    /\ Has(Parse(loadedFrom), "timestamp")
    /\ Parse(loadedFrom).timestamp > now
    /\ loaded = Null

(***************************************************************************)
(* Bootstrap.                                                              *)
(***************************************************************************)
ErrorShown == display.city = <<"Fehler beim Laden der Wetterdaten">>

\* C4: when an initial weather fetch of bootstrap fails, bootstrap issues one
\* retry fetch for Berlin, and the error message is shown only after a retry
BootFallbackRetries ==
    /\ bootRetries = bootFailures
    /\ ErrorShown => bootRetries > 0

\* C5: one page-load event starts exactly one initial weather load, with one
\* initial weather request, and the autocomplete is initialised once
BootstrapRunsOnce ==
    page = "loaded" => /\ initialLoads = 1
                       /\ bootFetches = 1
                       /\ Cardinality(Controllers) = 1

\* C6: no step of bootstrap creates or overwrites the stored record; the slot
\* keeps its item or loses it
BootNeverWrites == [][localStorage' \in {localStorage, NoItem}]_vars

\* bootstrap finished on working storage with Berlin shown and the slot empty
BerlinShownCacheEmpty ==
    /\ page = "loaded" /\ weatherReqs = <<>>
    /\ storageMode = "ok"
    /\ display.city = <<"Berlin", ", ", "Deutschland">>
    /\ currentCoordinates = getBerlinCoordinates
    /\ localStorage = NoItem

(***************************************************************************)
(* Choosing a city.                                                        *)
(***************************************************************************)
\* the citySelected events a step dispatched, by the cities they carry: each
\* dispatch runs the listener of index.ts, which starts one weather request
\* (the requests of the submit control are started without an event)
IsSelection(req) == req.cont = "select"

Emitted ==
    LET before == Len(weatherReqs)
        after == Len(weatherReqs')
        started == IF after <= before THEN <<>>
                   ELSE SelectSeq(SubSeq(weatherReqs', before + 1, after), IsSelection)
    IN [k \in 1..Len(started) |-> started[k].coordinates]

\* C7: when the weather request of a selection succeeds on working storage,
\* the weather shown is the selected candidate's and an immediate getLastCity()
\* returns that candidate
SelectionIsCached ==
    [][\A k \in 1..Len(weatherReqs), current \in CurrentSamples :
          (/\ weatherReqs[k].cont = "select"
           /\ storageMode = "ok"
           /\ WeatherResolvesAt(k, current))
          => LET city == weatherReqs[k].coordinates
                 read == getLastCity(localStorage', storageMode', now',
                                     DefaultMaxAgeHours).city
             IN /\ display'.city = FullCityName(WeatherData(city, current))
                /\ read # Null
                /\ read.lat = city.lat /\ read.lon = city.lon /\ read.name = city.name
      ]_vars

(***************************************************************************)
(* The autocomplete.                                                       *)
(***************************************************************************)
\* C8: once no debounce timer is pending, one geocoding query has been issued
\* per quiet period that ended on a non-blank input value
OneQueryPerQuietPeriod ==
    (\A i \in Controllers : ~timer[i]) => queries = quietPeriods

\* the candidates of the entries shown as selected (aria-selected = "true")
Highlighted ==
    {items[k].city : k \in {j \in 1..Len(items) : /\ items[j].ariaSelected = "true"
                                                  /\ items[j].city # Null}}

\* C9: a commit (a click on an entry, Enter or Space on an entry, Enter in the
\* input while an entry is selected) dispatches exactly one citySelected event,
\* carrying the chosen candidate, and no user event dispatches two
CommitEmitsOnce ==
    [][/\ \A k \in 1..Len(items) :
            (ClickEntryAt(k) \/ EntryKeydownAt(k)) => Emitted = <<items[k].city>>
       /\ (KeyDownOf("Enter") /\ Highlighted # {})
            => \E city \in Highlighted : Emitted = <<city>>
       /\ Len(Emitted) <= 1
      ]_vars

\* the number of candidates of the list on screen
Count == IF items = <<>> THEN 0 ELSE Len(currentResults)

\* C10: an ArrowDown press leaves no selection index past count - 1, an
\* ArrowUp press none below -1
KeyboardBounds ==
    [][/\ KeyDownOf("ArrowDown") => \A i \in Controllers : selectedIndex'[i] <= Count - 1
       /\ KeyDownOf("ArrowUp") => \A i \in Controllers : selectedIndex'[i] >= -1
      ]_vars

(***************************************************************************)
(* The submit control and the display during a weather request.            *)
(***************************************************************************)
\* C11: while a weather request started by fetchWeatherData is in flight the
\* submit control is disabled and shows the busy label
BusyWhileInFlight == weatherReqs # <<>> => button = ButtonBusy

\* C12: a failing weather request changes the city and condition texts only:
\* the readings, the postal codes, the icon and the theme stay as they were and
\* the cache is not written
FailureChangesTextOnly ==
    [][\A k \in 1..Len(weatherReqs) :
          WeatherFailsAt(k)
          => /\ display' = [display EXCEPT
                                !.city = <<"Fehler beim Laden der Wetterdaten">>,
                                !.weatherType = <<"Bitte versuchen Sie es erneut">>]
             /\ <<bodyClasses, themeTimers, themeFrames>>' =
                    <<bodyClasses, themeTimers, themeFrames>>
             /\ localStorage' = localStorage
      ]_vars

\* the request of a selection failed on working storage: the error text over
\* the readings of the weather shown before, nothing cached
FailedSelectionShown ==
    /\ ErrorShown
    /\ display.temperature # <<>> /\ display.image # ""
    /\ weatherReqs = <<>>
    /\ currentCoordinates # Null /\ currentCoordinates.name = "Paris"
    /\ storageMode = "ok" /\ localStorage = NoItem

\* the weather section after updateWeatherDisplay(weatherData)
Renders(weatherData) ==
    /\ display'.city = FullCityName(weatherData)
    /\ display'.temperature = <<weatherData.temperature, "°C">>
    /\ display'.weatherType = <<weatherData.weatherDescription>>
    /\ ~weatherDataHidden' /\ weatherLoadingHidden'

\* C13: when the weather of a request that asks for the save arrives and storage
\* cannot take the record, the stored item stays as it was, the weather is
\* rendered and the submit control is enabled again
SaveFailureSwallowed ==
    [][\A k \in 1..Len(weatherReqs), current \in CurrentSamples :
          (/\ weatherReqs[k].saveToStorage
           /\ storageMode # "ok"
           /\ WeatherResolvesAt(k, current))
          => /\ localStorage' = localStorage
             /\ Renders(WeatherData(weatherReqs[k].coordinates, current))
             /\ button' = ButtonIdle
      ]_vars

\* the selected city rendered although setItem threw on its record; the record
\* of the earlier visit still stored
RenderedDespiteFullStorage ==
    /\ storageMode = "tight"
    /\ localStorage = SavedEarlier
    /\ currentCoordinates # Null /\ currentCoordinates.name = "Paris"
    /\ display.city = <<"Paris", ", ", "France">>
    /\ weatherReqs = <<>> /\ button = ButtonIdle

\* the rendered state: loading section hidden, result section visible, the
\* submit control enabled with its normal label
Rendered == weatherLoadingHidden /\ ~weatherDataHidden /\ button = ButtonIdle

\* C14: with every weather request answered in the end, a state with a request
\* in flight leads to the rendered state, and the loaded page with no request in
\* flight is in the rendered state
RequestsEndRendered ==
    /\ (weatherReqs # <<>>) ~> Rendered
    /\ [](page = "loaded" /\ weatherReqs = <<>> => Rendered)

\* bootstrap for a cached city ended rendered although its requests failed
RenderedAfterFailure ==
    /\ page = "loaded" /\ weatherReqs = <<>>
    /\ bootFailures > 0 /\ ErrorShown
    /\ currentCoordinates # Null /\ currentCoordinates.name = "Sydney"
    /\ Rendered

(***************************************************************************)
(* Geocoding.                                                              *)
(***************************************************************************)
\* C15: searchCities returns the empty sequence when its request fails (network
\* error, non-OK response, decode error) or the answer has no results array, and
\* the autocomplete then shows the 'no results' entry, the weather section as
\* it was
FailedSearchShowsNoResults ==
    /\ [](\A query \in InputValues, outcome \in GeoOutcomes :
            (outcome # "ok" \/ ~Has(GeoApi(query), "results"))
            => searchCitiesResult(query, outcome) = <<>>)
    /\ [][\A k \in 1..Len(geoReqs), outcome \in GeoOutcomes :
            (/\ outcome # "ok" \/ ~Has(GeoApi(geoReqs[k].query), "results")
             /\ geoReqs[k].origin # 0
             /\ GeoSettlesAt(k, outcome))
            => /\ items' = <<NoResultsEntry>>
               /\ ~resultsHidden'
               /\ currentResults' = <<>>
               /\ display' = display
       ]_vars

\* the 'no results' entry shown for a query the endpoint has matches for: its
\* request failed
NoResultsAfterFailure ==
    /\ searchValue = "par" /\ inputs = 1
    /\ geoReqs = <<>> /\ queries > 0
    /\ items = <<NoResultsEntry>> /\ ~resultsHidden

\* C16: no geocoding request in flight has a blank query; searchCities sends no
\* request for a blank query; a debounce timer that fires on a blank input
\* closes the list without a query
NoBlankQuery ==
    /\ [](/\ \A k \in 1..Len(geoReqs) : Trim(geoReqs[k].query) # ""
          /\ \A query \in {"", " "}, origin \in Controllers \cup {0} :
                searchCities(State, origin, query).geoReqs = geoReqs)
    /\ [][(TimerFires /\ Trim(searchValue) = "")
            => /\ geoReqs' = geoReqs /\ queries' = queries
               /\ items' = <<>> /\ resultsHidden'
       ]_vars

\* the list, shown for an earlier value, closed after a blank input
ClosedOnBlankInput ==
    /\ searchValue \in {"", " "} /\ inputs = MaxInputs
    /\ \A i \in Controllers : ~timer[i]
    /\ geoReqs = <<>> /\ queries > 0
    /\ currentResults # <<>>
    /\ items = <<>> /\ resultsHidden

(***************************************************************************)
(* Rendering a weather snapshot.                                           *)
(***************************************************************************)
\* the text ends with the suffix "+n more"
EndsWithMore(text, n) ==
    /\ Len(text) >= 3
    /\ text[Len(text)] = " more"
    /\ text[Len(text) - 1] = n

\* C17: a rendered snapshot shows its first postal code, followed by "+N more"
\* for the N further codes when it has more than one ("+2 more" for Berlin's
\* three codes); without postal codes the element is hidden
PostalCodesAbbreviated ==
    [][\A k \in 1..Len(weatherReqs), current \in CurrentSamples :
          WeatherResolvesAt(k, current)
          => LET postcodes == WeatherData(weatherReqs[k].coordinates, current).postcodes
                 text == display'.postalText
             IN /\ display'.postalShown = (Len(postcodes) > 0)
                /\ Len(postcodes) > 0 => text[2] = postcodes[1]
                /\ Len(postcodes) > 1 => EndsWithMore(text, Len(postcodes) - 1)
      ]_vars

\* C18: for a code outside the table getWeatherInfo returns what it returns for
\* code 0, clear sky; for a code of the table it returns the entry of that code,
\* whose theme is sunny or cloudy
ConditionFallback ==
    lookupInfo # Null
    => /\ lookupCode \notin WeatherCodes => lookupInfo = getWeatherInfo(0)
       /\ lookupCode \in WeatherCodes => lookupInfo = weatherCodeMap[lookupCode]
       /\ lookupInfo.background \in {"sunny", "cloudy"}
       /\ getWeatherInfo(0) = [condition |-> "Klarer Himmel", image |-> "sunny.png",
                               background |-> "sunny"]

\* the unknown code 9999 looked up: clear sky
UnknownCodeLookedUp ==
    /\ lookupCode = 9999
    /\ lookupInfo = [condition |-> "Klarer Himmel", image |-> "sunny.png",
                     background |-> "sunny"]

TimestampIsWriteTime ==
    /\ [][localStorage' # localStorage /\ localStorage'.kind = "json"
            => Parse(localStorage').timestamp = now'
       ]_vars
    /\ [][\A k \in 1..Len(weatherReqs), current \in CurrentSamples :
            /\ WeatherResolvesAt(k, current)
            /\ weatherReqs[k].saveToStorage
            /\ storageMode = "ok"
            => /\ localStorage'.kind = "json"
               /\ Parse(localStorage').timestamp = now'
               /\ Parse(localStorage').name = weatherReqs[k].coordinates.name
       ]_vars

\* the cached city, restored with its old timestamp, was submitted and saved again
CachedCitySavedAgain ==
    /\ currentCoordinates # Null
    /\ Has(currentCoordinates, "timestamp")
    /\ currentCoordinates.timestamp # now
    /\ localStorage.kind = "json"
    /\ Parse(localStorage).name = currentCoordinates.name
    /\ Parse(localStorage).timestamp = now

NoResultsNotSelectable ==
    /\ [][(\E k \in 1..Len(items) : items[k].city = Null) => Emitted = <<>>]_vars
    /\ [](\A k \in 1..Len(items) :
            items[k].city = Null
            => /\ items[k].ariaSelected # "true"
               /\ \A i \in Controllers : selectedIndex[i] # k - 1)

(***************************************************************************)
(* Overlapping requests.                                                   *)
(***************************************************************************)
\* the entries showResults renders for matches
EntriesOf(matches) ==
    IF Len(matches) = 0 THEN <<NoResultsEntry>>
    ELSE [k \in 1..Len(matches) |->
            [city |-> matches[k], id |-> <<"result-", k - 1>>, ariaSelected |-> "unset"]]

\* C23: the answer to a query of the autocomplete replaces the list and the
\* candidates of the keyboard commit with its own matches, also when a later
\* query is in flight or was answered before: the last answer to arrive wins
LastResponseWins ==
    [][\A k \in 1..Len(geoReqs), outcome \in GeoOutcomes :
          (geoReqs[k].origin # 0 /\ GeoSettlesAt(k, outcome))
          => LET matches == searchCitiesResult(geoReqs[k].query, outcome)
             IN /\ currentResults' = matches
                /\ items' = EntriesOf(matches)
                /\ ~resultsHidden'
      ]_vars

\* the input reads "zzz", every query was answered, and the list is the one of
\* the earlier query "par", whose answer came last
EarlierQueryShown ==
    /\ searchValue = "zzz" /\ inputs = 2
    /\ \A i \in Controllers : ~timer[i]
    /\ geoReqs = <<>> /\ queries = 4
    /\ Len(currentResults) = 2 /\ currentResults[1].name = "Paris"
    /\ items = EntriesOf(currentResults) /\ ~resultsHidden

\* C24: when the last weather request in flight is answered, on working
\* storage, the weather shown and the city cached are those of the current
\* selection, the candidate the submit control uses and the placeholder names
LatestSelectionWins ==
    [][\A current \in CurrentSamples :
          (/\ Len(weatherReqs) = 1 /\ geoReqs = <<>>
           /\ ~IsBoot(weatherReqs[1])
           /\ storageMode = "ok"
           /\ currentCoordinates # Null
           /\ placeholder = <<"Aktuell: ">> \o generateSearchText(currentCoordinates)
           /\ WeatherResolvesAt(1, current))
          => /\ display'.city = FullCityName(WeatherData(currentCoordinates, current))
             /\ localStorage'.kind = "json"
             /\ Parse(localStorage').name = currentCoordinates.name
             /\ currentCoordinates' = currentCoordinates
             /\ placeholder' = placeholder
      ]_vars

\* C25: a closed results list is opened only by the answer to a query of the
\* autocomplete that follows an input event later than the closing; the answer
\* to a query of an earlier input event leaves the list closed
ClosedListStaysClosed ==
    [][(resultsHidden /\ ~resultsHidden')
          => \E k \in 1..Len(geoReqs), outcome \in GeoOutcomes :
                /\ geoReqs[k].origin # 0
                /\ geoReqs[k].input > closedAt
                /\ GeoSettlesAt(k, outcome)
      ]_vars

\* the candidates the autocomplete offers
Offered == {searchCitiesResult("par", "ok")[k] : k \in 1..Len(searchCitiesResult("par", "ok"))}

\* C26: when an initial weather request settles after the user committed a
\* city, the candidate the submit control uses and the placeholder stay those
\* of the committed city
CommitSurvivesBootstrap ==
    [][\A k \in 1..Len(weatherReqs) :
          (/\ IsBoot(weatherReqs[k])
           /\ currentCoordinates \in Offered
           /\ placeholder = <<"Aktuell: ">> \o generateSearchText(currentCoordinates)
           /\ \/ WeatherFailsAt(k)
              \/ \E current \in CurrentSamples : WeatherResolvesAt(k, current))
          => /\ currentCoordinates' = currentCoordinates
             /\ placeholder' = placeholder
      ]_vars

\* the weather requests a step started
Started ==
    IF Len(weatherReqs') <= Len(weatherReqs) THEN <<>>
    ELSE SubSeq(weatherReqs', Len(weatherReqs) + 1, Len(weatherReqs'))

\* C27: a commit starts exactly one weather request, for the chosen candidate
\* and saving it, and no geocoding lookup of the submit control: Enter in the
\* input on a highlighted entry, a click on an entry, Enter or Space on an entry
OneFetchPerCommit ==
    [][/\ (KeyDownOf("Enter") /\ Highlighted # {})
            => /\ \E city \in Highlighted :
                    Started = <<[coordinates |-> city, saveToStorage |-> TRUE,
                                 cont |-> "select", overtaken |-> FALSE]>>
               /\ geoReqs' = geoReqs
       /\ \A k \in 1..Len(items) :
            (ClickEntryAt(k) \/ EntryKeydownAt(k))
            => /\ Started = <<[coordinates |-> items[k].city, saveToStorage |-> TRUE,
                               cont |-> "select", overtaken |-> FALSE]>>
               /\ geoReqs' = geoReqs
      ]_vars

\* C28: the answer to a weather request that was in flight when the user
\* cleared the cache, with no selection and no submit since, leaves the cache
\* empty
ClearedCacheStaysEmpty ==
    [][\A k \in 1..Len(weatherReqs), current \in CurrentSamples :
          (/\ weatherReqs[k].overtaken
           /\ localStorage = NoItem
           /\ WeatherResolvesAt(k, current))
          => localStorage' = NoItem
      ]_vars

(***************************************************************************)
(* The theme of the page.                                                  *)
(***************************************************************************)
\* C29: the body carries at most one of the classes sunny and cloudy
AtMostOneTheme == Cardinality(bodyClasses \cap {"sunny", "cloudy"}) <= 1

(***************************************************************************)
(* The keyboard commit.                                                    *)
(***************************************************************************)
\* C30: Enter in the search input dispatches a citySelected event only when an
\* entry of the list on screen is highlighted, and the event then carries that
\* entry's candidate; an index left from an earlier list commits nothing
EnterCommitsHighlighted ==
    [][(KeyDownOf("Enter") /\ Emitted # <<>>)
          => \E city \in Highlighted : Emitted = <<city>>
      ]_vars

====
